---- MODULE Spec2Model ----
(***************************************************************************)
(* Model of the matching engine of rusty-matching-engine.                  *)
(*                                                                         *)
(* src/src/main.rs holds the two BinaryHeap<Order> queues and the matching *)
(* loop execute_limit_order; src/src/orders.rs holds the Order value type  *)
(* with its Strategy tag, the eligibility rule and the comparator.  The    *)
(* model runs the loop of main.rs over the Order of orders.rs (for a Limit *)
(* order Strategy::matches is exactly Order::matches of main.rs).          *)
(*                                                                         *)
(* A queue is the backing vector of std::collections::BinaryHeap, a        *)
(* max-heap driven by Order's Ord: data[1] is what peek() returns.  The    *)
(* heap operations are modelled element move by element move, because      *)
(* Order::cmp is not a total order on Ask orders and the content of the    *)
(* vector then depends on which comparisons the heap performs.             *)
(*                                                                         *)
(* The wall-clock timestamp of a Trade is not modelled: nothing reads it.  *)
(*                                                                         *)
(* An input line is the sequence of its whitespace-separated tokens, each  *)
(* a string.  scan! of text_io unwraps every capture, so a capture that is *)
(* missing or is no integer panics, as do the two explicit panic! calls.   *)
(***************************************************************************)
EXTENDS Integers, Sequences, FiniteSets, Bags, TLC

\* ---------------------------------------------------------------- bounds
MaxAmount == 2
MaxPrice == 2
MaxSeq == 2
MaxBook == 3

Sides == {"Bid", "Ask"}
Strategies == {"Limit", "Market"}
Amounts == 0..MaxAmount
Prices == 1..MaxPrice
Timestamps == 1..MaxSeq

VARIABLES asks, bids, pc, new_order, trades, incoming, asks_before,
          bids_before, matched_orders, line

vars == <<asks, bids, pc, new_order, trades, incoming, asks_before,
          bids_before, matched_orders, line>>

\* ------------------------------------------------------------ value types
Order(side, amount, price, timestamp, strategy) ==
    [side |-> side, amount |-> amount, price |-> price,
     timestamp |-> timestamp, strategy |-> strategy]

\* Trade with the two integer fields filled in the wrong order
Trade_swapped(matched_amount, price) ==
    [executing_order_id |-> 1, matched_order_id |-> 1,
     amount |-> price, price |-> matched_amount]

Trade(matched_amount, price) ==
    [executing_order_id |-> 1, matched_order_id |-> 1,
     amount |-> matched_amount, price |-> price]

NoOrder == Order("Bid", 0, 0, 0, "Limit")

\* ---------------------------------------------------------------- parsing
DecimalDigits == {"0", "1", "2", "3", "4", "5", "6", "7", "8", "9"}

\* i32::from_str on a one-digit token
digit_value(tok) ==
    CASE tok = "0" -> 0 [] tok = "1" -> 1 [] tok = "2" -> 2 [] tok = "3" -> 3
      [] tok = "4" -> 4 [] tok = "5" -> 5 [] tok = "6" -> 6 [] tok = "7" -> 7
      [] tok = "8" -> 8 [] tok = "9" -> 9

\* the lines fed to the program: four or five tokens, each a number of the
\* field's range, a number outside the codes, or the non-number "x"
TokensOf(values) == {tok \in DecimalDigits : digit_value(tok) \in values}

SideTokens == {"4", "8", "5", "x"}
StrategyTokens == {"0", "1", "2", "x"}
AmountTokens == TokensOf(Amounts) \cup {"x"}
PriceTokens == TokensOf(Prices) \cup {"x"}
TimestampTokens == TokensOf(Timestamps) \cup {"x"}

Lines ==
    LET four == SideTokens \X AmountTokens \X PriceTokens \X TimestampTokens
    IN  four \cup {Append(l, tok) : l \in four, tok \in StrategyTokens}

NoLine == <<>>

Panic == [result |-> "Panic"]
Ok(order) == [result |-> "Ok", order |-> order]

side_of(side_int) ==
    IF side_int = 4 THEN "Ask" ELSE IF side_int = 8 THEN "Bid" ELSE "Invalid"

strategy_of(strategy_int) ==
    IF strategy_int = 0 THEN "Limit"
    ELSE IF strategy_int = 1 THEN "Market" ELSE "Invalid"

\* scan!(raw_str.bytes() => "{} {} {} {} {}", ...): all five captures parse
scan_ok(raw_str) ==
    /\ Len(raw_str) >= 5
    /\ \A i \in 1..5 : raw_str[i] \in DecimalDigits

from_str(raw_str) ==
    IF ~scan_ok(raw_str) THEN Panic
    ELSE LET side == side_of(digit_value(raw_str[1]))
             amount == digit_value(raw_str[2])
             price == digit_value(raw_str[3])
             timestamp == digit_value(raw_str[4])
             strategy == strategy_of(digit_value(raw_str[5]))
         IN  IF side = "Invalid" THEN Panic
             ELSE IF strategy = "Invalid" THEN Panic
             ELSE Ok(Order(side, amount, price, timestamp, strategy))

\* ------------------------------------------------------------ eligibility
\* Limit rule with the two comparisons exchanged
Strategy_matches_flipped(strategy, this_order, other) ==
    IF strategy = "Limit"
    THEN \/ (this_order.side = "Bid" /\ this_order.price <= other.price)
         \/ (this_order.side = "Ask" /\ this_order.price >= other.price)
    ELSE TRUE

\* Limit rule with strict comparisons
Strategy_matches_strict(strategy, this_order, other) ==
    IF strategy = "Limit"
    THEN \/ (this_order.side = "Bid" /\ this_order.price > other.price)
         \/ (this_order.side = "Ask" /\ this_order.price < other.price)
    ELSE TRUE

\* the strategy tag ignored: every order is held to the Limit rule
Strategy_matches_limit_only(strategy, this_order, other) ==
    \/ (this_order.side = "Bid" /\ this_order.price >= other.price)
    \/ (this_order.side = "Ask" /\ this_order.price <= other.price)

Strategy_matches(strategy, this_order, other) ==
    IF strategy = "Limit"
    THEN \/ (this_order.side = "Bid" /\ this_order.price >= other.price)
         \/ (this_order.side = "Ask" /\ this_order.price <= other.price)
    ELSE TRUE

matches(self, other) == Strategy_matches(self.strategy, self, other)

\* ------------------------------------------------------------- comparator
\* Ordering of two (i32, i32) tuples, lexicographic
tuple_cmp(a1, a2, b1, b2) ==
    IF a1 < b1 THEN "Less"
    ELSE IF a1 > b1 THEN "Greater"
    ELSE IF a2 < b2 THEN "Less"
    ELSE IF a2 > b2 THEN "Greater"
    ELSE "Equal"

\* the multiplier chosen for the wrong side
cmp_wrong_side(self, other) ==
    LET multiplier == IF self.side = "Bid" THEN -1 ELSE 1
    IN  tuple_cmp(self.price, self.timestamp,
                  other.price * multiplier, other.timestamp)

cmp(self, other) ==
    LET multiplier == IF self.side = "Ask" THEN -1 ELSE 1
    IN  tuple_cmp(self.price, self.timestamp,
                  other.price * multiplier, other.timestamp)

\* PartialEq for Order: price and timestamp only
eq(self, other) ==
    self.price = other.price /\ self.timestamp = other.timestamp

\* the provided PartialOrd methods, all derived from partial_cmp = Some(cmp)
le(a, b) == cmp(a, b) \in {"Less", "Equal"}
ge(a, b) == cmp(a, b) \in {"Greater", "Equal"}
lt(a, b) == cmp(a, b) = "Less"

\* ------------------------------------------------------------ BinaryHeap
\* positions are 0-based as in the vector; data[p + 1] is the element at p
at(data, p) == data[p + 1]

swap(data, p, q) ==
    [data EXCEPT ![p + 1] = data[q + 1], ![q + 1] = data[p + 1]]

RECURSIVE sift_up(_, _, _)
sift_up(data, start, pos) ==
    IF pos > start
    THEN LET parent == (pos - 1) \div 2
         IN  IF le(at(data, pos), at(data, parent))
             THEN data
             ELSE sift_up(swap(data, pos, parent), start, parent)
    ELSE data

\* the position at which sift_down_to_bottom leaves the hole
RECURSIVE bottom_walk(_, _)
bottom_walk(data, pos) ==
    LET end == Len(data)
        child == 2 * pos + 1
    IN  IF child <= end - 2
        THEN LET c == IF le(at(data, child), at(data, child + 1))
                      THEN child + 1 ELSE child
             IN  bottom_walk(swap(data, pos, c), c)
        ELSE IF child = end - 1
        THEN <<swap(data, pos, child), child>>
        ELSE <<data, pos>>

sift_down_to_bottom(data, pos) ==
    LET w == bottom_walk(data, pos)
    IN  sift_up(w[1], pos, w[2])

RECURSIVE sift_down_range(_, _, _)
sift_down_range(data, pos, end) ==
    LET child == 2 * pos + 1
    IN  IF child <= end - 2
        THEN LET c == IF le(at(data, child), at(data, child + 1))
                      THEN child + 1 ELSE child
             IN  IF ge(at(data, pos), at(data, c))
                 THEN data
                 ELSE sift_down_range(swap(data, pos, c), c, end)
        ELSE IF child = end - 1 /\ lt(at(data, pos), at(data, child))
        THEN swap(data, pos, child)
        ELSE data

peek(data) == at(data, 0)

push(data, item) == sift_up(Append(data, item), 0, Len(data))

\* the vector left by pop(); the popped item is peek(data)
pop(data) ==
    LET n == Len(data)
        rest == SubSeq(data, 1, n - 1)
    IN  IF rest = <<>> THEN rest
        ELSE sift_down_to_bottom([rest EXCEPT ![1] = data[n]], 0)

\* the fill added to the head's amount instead of subtracted
peek_mut_increment(data, matched_amount) ==
    sift_down_range([data EXCEPT ![1].amount = @ + matched_amount],
                    0, Len(data))

\* peek_mut().unwrap().amount -= matched_amount, then PeekMut's drop
peek_mut_decrement(data, matched_amount) ==
    sift_down_range([data EXCEPT ![1].amount = @ - matched_amount],
                    0, Len(data))

\* ------------------------------------------------------- execute_limit_order
min(a, b) == IF a <= b THEN a ELSE b

other_side == IF new_order.side = "Bid" THEN asks ELSE bids
same_side == IF new_order.side = "Bid" THEN bids ELSE asks

loop_guard ==
    /\ new_order.amount > 0
    /\ other_side # <<>>
    /\ matches(new_order, peek(other_side))

\* one unit filled per iteration
matched_amount_of_unit(order, matched_order) ==
    min(min(order.amount, matched_order.amount), 1)

\* the resting order's whole amount taken, whatever the incoming amount
matched_amount_of_resting(order, matched_order) == matched_order.amount

matched_amount_of(order, matched_order) ==
    min(order.amount, matched_order.amount)

\* the taker's price recorded instead of the maker's
fill_price_taker(order, matched_order) == order.price

fill_price(order, matched_order) == matched_order.price

\* a fully consumed resting order is decremented instead of removed
is_filled_never(matched_amount, matched_order) ==
    matched_amount > matched_order.amount

is_filled(matched_amount, matched_order) ==
    matched_amount = matched_order.amount

fill_other_side(data, matched_amount) ==
    IF is_filled(matched_amount, peek(data))
    THEN pop(data)
    ELSE peek_mut_decrement(data, matched_amount)

\* the remainder of a Market order is discarded
rests_limit_only(order) == order.amount > 0 /\ order.strategy = "Limit"

rests(order) == order.amount > 0

\* the while loop run to its exit on a given opposite queue
RECURSIVE execute_loop(_, _, _)
execute_loop(order, data, acc) ==
    IF order.amount > 0 /\ data # <<>> /\ matches(order, peek(data))
    THEN LET matched_order == peek(data)
             matched_amount == matched_amount_of(order, matched_order)
             price == fill_price(order, matched_order)
         IN  execute_loop([order EXCEPT !.amount = @ - matched_amount],
                          fill_other_side(data, matched_amount),
                          Append(acc, Trade(matched_amount, price)))
    ELSE [order |-> order, other |-> data, trades |-> acc]

\* the queue after pushing the orders of seq, first to last, on an empty one
RECURSIVE pushed(_)
pushed(seq) ==
    IF seq = <<>> THEN <<>>
    ELSE push(pushed(SubSeq(seq, 1, Len(seq) - 1)), seq[Len(seq)])

Init ==
    /\ asks = <<>>
    /\ bids = <<>>
    /\ pc = "read"
    /\ new_order = NoOrder
    /\ incoming = NoOrder
    /\ trades = <<>>
    /\ asks_before = <<>>
    /\ bids_before = <<>>
    /\ matched_orders = <<>>
    /\ line = NoLine

\* main reads a line, parses it and calls execute_limit_order
Submit ==
    /\ pc = "read"
    /\ Len(asks) + Len(bids) < MaxBook
    /\ \E l \in Lines :
          /\ from_str(l).result = "Ok"
          /\ line' = l
          /\ new_order' = from_str(l).order
          /\ incoming' = new_order'
    /\ trades' = <<>>
    /\ matched_orders' = <<>>
    /\ asks_before' = asks
    /\ bids_before' = bids
    /\ pc' = "loop"
    /\ UNCHANGED <<asks, bids>>

\* main reads a line that from_str does not turn into an order: an Err is
\* reported and the loop reads on, a panic ends the process
RejectLine ==
    /\ pc = "read"
    /\ Len(asks) + Len(bids) < MaxBook
    /\ \E l \in Lines :
          /\ from_str(l).result # "Ok"
          /\ line' = l
          /\ IF from_str(l).result = "Err"
             THEN /\ pc' = "read"
                  /\ UNCHANGED <<asks, bids>>
             ELSE /\ pc' = "panicked"
                  /\ asks' = <<>>
                  /\ bids' = <<>>
    /\ UNCHANGED <<new_order, trades, incoming, asks_before, bids_before,
                   matched_orders>>

\* one iteration of the while loop
LoopIter ==
    /\ pc = "loop"
    /\ loop_guard
    /\ LET matched_order == peek(other_side)
           matched_amount == matched_amount_of(new_order, matched_order)
           price == fill_price(new_order, matched_order)
       IN  /\ new_order' = [new_order EXCEPT !.amount = @ - matched_amount]
           /\ IF new_order.side = "Bid"
              THEN /\ asks' = fill_other_side(asks, matched_amount)
                   /\ bids' = bids
              ELSE /\ bids' = fill_other_side(bids, matched_amount)
                   /\ asks' = asks
           /\ trades' = Append(trades, Trade(matched_amount, price))
           /\ matched_orders' = Append(matched_orders, matched_order)
    /\ UNCHANGED <<pc, incoming, asks_before, bids_before, line>>

\* the remainder pushed onto the queue of the opposite side
Finish_swapped ==
    /\ pc = "loop"
    /\ ~loop_guard
    /\ IF rests(new_order)
       THEN IF new_order.side = "Bid"
            THEN /\ asks' = push(asks, new_order)
                 /\ bids' = bids
            ELSE /\ bids' = push(bids, new_order)
                 /\ asks' = asks
       ELSE UNCHANGED <<asks, bids>>
    /\ pc' = "done"
    /\ UNCHANGED <<new_order, trades, incoming, asks_before, bids_before,
                   matched_orders, line>>

\* loop exit: the remainder rests on its own side, the trades are returned
Finish ==
    /\ pc = "loop"
    /\ ~loop_guard
    /\ IF rests(new_order)
       THEN IF new_order.side = "Bid"
            THEN /\ bids' = push(bids, new_order)
                 /\ asks' = asks
            ELSE /\ asks' = push(asks, new_order)
                 /\ bids' = bids
       ELSE UNCHANGED <<asks, bids>>
    /\ pc' = "done"
    /\ UNCHANGED <<new_order, trades, incoming, asks_before, bids_before,
                   matched_orders, line>>

\* main prints the trades and both queues and goes back to reading
ReportBook ==
    /\ pc = "done"
    /\ pc' = "read"
    /\ new_order' = NoOrder
    /\ incoming' = NoOrder
    /\ trades' = <<>>
    /\ matched_orders' = <<>>
    /\ asks_before' = <<>>
    /\ bids_before' = <<>>
    /\ line' = NoLine
    /\ UNCHANGED <<asks, bids>>

Next == Submit \/ RejectLine \/ LoopIter \/ Finish \/ ReportBook

Spec == Init /\ [][Next]_vars

\* execute_limit_order runs to its end once called: the loop and its exit
\* are steps of one synchronous call
FairSpec == Spec /\ WF_vars(LoopIter) /\ WF_vars(Finish)

TypeOK ==
    /\ pc \in {"read", "loop", "done", "panicked"}
    /\ Len(asks) + Len(bids) <= MaxBook

\* ------------------------------------------------------------- properties
other_before == IF incoming.side = "Bid" THEN asks_before ELSE bids_before
same_before == IF incoming.side = "Bid" THEN bids_before ELSE asks_before
other_after == IF incoming.side = "Bid" THEN asks ELSE bids
same_after == IF incoming.side = "Bid" THEN bids ELSE asks

Range(seq) == {seq[i] : i \in 1..Len(seq)}

BagOf(seq) ==
    [x \in Range(seq) |-> Cardinality({i \in 1..Len(seq) : seq[i] = x})]

RECURSIVE SumAmounts(_)
SumAmounts(seq) ==
    IF seq = <<>> THEN 0 ELSE Head(seq).amount + SumAmounts(Tail(seq))

\* an order without its remaining amount
Identity(order) == [order EXCEPT !.amount = 0]

Identities(seq) == [i \in 1..Len(seq) |-> Identity(seq[i])]

\* C1: between execute calls the head of the ask queue has the lowest price
\* of all resting asks
AskPricePriority ==
    (pc # "loop" /\ asks # <<>>) =>
        \A i \in 1..Len(asks) : peek(asks).price <= asks[i].price

\* C2: between execute calls the head of the bid queue has the highest price
\* of all resting bids
BidPricePriority ==
    (pc # "loop" /\ bids # <<>>) =>
        \A i \in 1..Len(bids) : peek(bids).price >= bids[i].price

BidPricePriorityWitness ==
    /\ pc = "done"
    /\ Len(bids) = 3
    /\ incoming.side = "Bid"
    /\ new_order.amount > 0
    /\ new_order.price < peek(bids).price
    /\ \E i \in 1..Len(bids) : bids[i].timestamp > peek(bids).timestamp

\* C3: between execute calls the head of either queue has the smallest
\* sequence number among the resting orders at the head's price
TimePriority ==
    pc # "loop" =>
        \A q \in {asks, bids} :
            \A i \in 1..Len(q) :
                q[i].price = peek(q).price =>
                    peek(q).timestamp <= q[i].timestamp

\* C4: every trade carries the price of the resting order it was filled
\* against, never the incoming order's price when the two differ
MakerPrice ==
    /\ Len(matched_orders) = Len(trades)
    /\ \A i \in 1..Len(trades) :
          /\ trades[i].price = matched_orders[i].price
          /\ incoming.price # matched_orders[i].price =>
                trades[i].price # incoming.price

MakerPriceWitness ==
    /\ pc = "done"
    /\ \E i \in 1..Len(trades) :
          /\ incoming.side = "Bid"
          /\ incoming.strategy = "Limit"
          /\ incoming.price > matched_orders[i].price

\* C5: when execute returns, the trade amounts plus the incoming order's
\* remaining amount add up to the amount it came in with
AmountConservation ==
    (pc = "done" /\ incoming.amount > 0) =>
        SumAmounts(trades) + new_order.amount = incoming.amount

AmountConservationWitness ==
    /\ pc = "done"
    /\ trades # <<>>
    /\ new_order.amount > 0
    /\ trades[1].amount # trades[1].price

\* C6: every order resting in either queue has amount > 0, in every state,
\* so a resting order leaves in the step that would bring it to zero
NoZeroResting ==
    /\ \A i \in 1..Len(asks) : asks[i].amount > 0
    /\ \A i \in 1..Len(bids) : bids[i].amount > 0

NoZeroRestingWitness ==
    /\ pc = "done"
    /\ Len(trades) = 2
    /\ Len(other_after) = Len(other_before) - 1
    /\ other_after # <<>>
    /\ peek(other_after).amount < matched_orders[2].amount

\* C7: a Limit order whose price crosses no order resting on the opposite
\* side produces no trade and leaves the opposite queue as it was
NoCross(order, queue) ==
    \A i \in 1..Len(queue) :
        IF order.side = "Bid" THEN order.price < queue[i].price
                               ELSE order.price > queue[i].price

NonCrossingLimitNoOp ==
    (pc = "done" /\ incoming.strategy = "Limit"
        /\ NoCross(incoming, other_before)) =>
        /\ trades = <<>>
        /\ other_after = other_before

NonCrossingLimitNoOpWitness ==
    /\ pc = "done"
    /\ incoming.strategy = "Limit"
    /\ incoming.amount > 0
    /\ other_before # <<>>
    /\ NoCross(incoming, other_before)

\* C8: when execute returns, the incoming order has been added to the queue
\* of its own side iff its remaining amount is > 0, as the incoming order
\* with the remaining amount; the opposite queue has gained no order
RemainderRests ==
    pc = "done" =>
        /\ new_order =
              [incoming EXCEPT !.amount = incoming.amount - SumAmounts(trades)]
        /\ IF new_order.amount > 0
           THEN BagOf(same_after) = BagOf(same_before) (+) SetToBag({new_order})
           ELSE same_after = same_before
        /\ BagOf(Identities(other_after)) \sqsubseteq
              BagOf(Identities(other_before))

RemainderRestsWitness ==
    /\ pc = "done"
    /\ incoming.strategy = "Market"
    /\ trades # <<>>
    /\ new_order.amount > 0
    /\ same_before # <<>>

\* C9: a Limit order is eligible against a candidate iff it is a Bid priced
\* at or above the candidate or an Ask priced at or below it; so a Limit
\* order with amount > 0 trades iff that holds of the opposite head
LimitEligible(order, candidate) ==
    \/ (order.side = "Bid" /\ order.price >= candidate.price)
    \/ (order.side = "Ask" /\ order.price <= candidate.price)

LimitEligibility ==
    (pc = "done" /\ incoming.strategy = "Limit") =>
        /\ \A i \in 1..Len(other_before) :
              matches(incoming, other_before[i])
                 <=> LimitEligible(incoming, other_before[i])
        /\ (incoming.amount > 0 /\ other_before # <<>>) =>
              (trades # <<>>
                 <=> LimitEligible(incoming, peek(other_before)))

LimitEligibilityWitness ==
    /\ pc = "done"
    /\ incoming.strategy = "Limit"
    /\ trades # <<>>
    /\ incoming.price = matched_orders[1].price

TradeOrder ==
    /\ Len(trades) = Len(matched_orders)
    /\ \A i \in 1..Len(trades) :
          /\ trades[i].price = matched_orders[i].price
          /\ trades[i].amount <= matched_orders[i].amount
    /\ \A i \in 1..(Len(trades) - 1) :
          IF incoming.side = "Bid"
          THEN trades[i].price <= trades[i + 1].price
          ELSE trades[i].price >= trades[i + 1].price

SideHomogeneity ==
    /\ \A i \in 1..Len(bids) : bids[i].side = "Bid"
    /\ \A i \in 1..Len(asks) : asks[i].side = "Ask"

SideHomogeneityWitness ==
    /\ pc = "done"
    /\ trades # <<>>
    /\ new_order.amount > 0
    /\ asks # <<>>
    /\ bids # <<>>

\* C14: the outcome of execute depends only on the set of resting orders and
\* the incoming order, not on the order in which the resting orders were
\* inserted.  Stated for a call that finds its own side empty: every queue
\* obtained by submitting the same opposite orders in another order (each
\* rests in full, nothing being there to match it) gives the same trades,
\* the same remainder and the same resting orders.  The resting orders are
\* pairwise different under Order's equality (price and sequence)
Reorderings(seq) ==
    {[i \in 1..Len(seq) |-> seq[f[i]]] : f \in Permutations(1..Len(seq))}

DistinctOrders(seq) ==
    \A i \in 1..Len(seq), j \in 1..Len(seq) : i # j => ~eq(seq[i], seq[j])

InsertionOrderIndependence ==
    (pc = "done" /\ incoming.amount > 0 /\ same_before = <<>>
        /\ DistinctOrders(other_before)) =>
        \A seq \in Reorderings(other_before) :
            LET outcome == execute_loop(incoming, pushed(seq), <<>>)
            IN  /\ outcome.trades = trades
                /\ outcome.order = new_order
                /\ BagOf(outcome.other) = BagOf(other_after)

\* C15: a line with a non-integer field, a side code other than 4 or 8 or a
\* strategy code other than 0 or 1 is reported and skipped: the loop is back
\* at reading the next line with both queues as they were
Malformed(l) ==
    \/ \E i \in 1..Len(l) : l[i] \notin DecimalDigits
    \/ l[1] \notin {"4", "8"}
    \/ (Len(l) = 5 /\ l[5] \notin {"0", "1"})

RecoverableParseFailure ==
    [][(pc = "read" /\ line' # NoLine /\ Malformed(line')) =>
          (pc' = "read" /\ asks' = asks /\ bids' = bids)]_vars

\* C16: a well-formed line `side amount price sequence [strategyCode]` parses
\* to the order with side Ask for 4 and Bid for 8, the given amount, price
\* and sequence, and strategy Limit for 0, Market for 1, Limit when omitted
WellFormed(l) ==
    /\ Len(l) \in {4, 5}
    /\ \A i \in 1..Len(l) : l[i] \in DecimalDigits
    /\ l[1] \in {"4", "8"}
    /\ Len(l) = 5 => l[5] \in {"0", "1"}

Expected(l) ==
    Order(IF l[1] = "4" THEN "Ask" ELSE "Bid",
          digit_value(l[2]), digit_value(l[3]), digit_value(l[4]),
          IF Len(l) = 5 /\ l[5] = "1" THEN "Market" ELSE "Limit")

ParseWellFormed ==
    (line # NoLine /\ WellFormed(line)) =>
        (pc \in {"loop", "done"} /\ incoming = Expected(line))

\* the same for the lines that carry a strategy code
ParseFiveFields ==
    (line # NoLine /\ WellFormed(line) /\ Len(line) = 5) =>
        (pc \in {"loop", "done"} /\ incoming = Expected(line))

\* C17: on two orders of the same side cmp is a total order: cmp(a, b) is
\* the reverse of cmp(b, a), cmp is transitive, and it is Equal exactly
\* when a == b.  Checked on the orders that meet in one queue
Reverse(ordering) ==
    CASE ordering = "Less" -> "Greater"
      [] ordering = "Greater" -> "Less"
      [] ordering = "Equal" -> "Equal"

ComparatorTotalOrder ==
    \A q \in {asks, bids} :
        \A a \in Range(q), b \in Range(q) :
            /\ cmp(a, b) = Reverse(cmp(b, a))
            /\ (cmp(a, b) = "Equal") <=> eq(a, b)
            /\ \A c \in Range(q) :
                  (cmp(a, b) = "Less" /\ cmp(b, c) = "Less")
                     => cmp(a, c) = "Less"

\* C18: a call terminates, makes at most as many trades as orders rested on
\* the opposite side when it began, and every trade but the last consumes
\* its resting order in full (so at most one partial fill, the last trade)
FillBound ==
    /\ Len(trades) <= Len(other_before)
    /\ \A i \in 1..(Len(trades) - 1) :
          trades[i].amount = matched_orders[i].amount

TerminationAndFillBound ==
    /\ []FillBound
    /\ (pc = "loop") ~> (pc = "done")

TerminationAndFillBoundWitness ==
    /\ pc = "done"
    /\ Len(other_before) = 2
    /\ Len(trades) = 2
    /\ trades[2].amount < matched_orders[2].amount

\* C19: between execute calls the book is not crossed: every resting bid is
\* priced strictly below every resting ask
NeverCrossed ==
    pc # "loop" =>
        \A i \in 1..Len(bids), j \in 1..Len(asks) :
            bids[i].price < asks[j].price

\* C20: when execute returns, the amount resting in both queues is the
\* amount resting before plus the incoming amount minus twice the traded
\* amount; the same-side queue has changed by the insertion of the remainder
\* at most; and every order left on the opposite side is an order that was
\* there, with its side, price and sequence and no larger an amount
Dominated(after, before) ==
    \E f \in [1..Len(after) -> 1..Len(before)] :
        /\ \A i, j \in 1..Len(after) : i # j => f[i] # f[j]
        /\ \A i \in 1..Len(after) :
              /\ Identity(after[i]) = Identity(before[f[i]])
              /\ after[i].amount <= before[f[i]].amount

QuantityConservation ==
    pc = "done" =>
        /\ SumAmounts(asks) + SumAmounts(bids) =
              SumAmounts(asks_before) + SumAmounts(bids_before)
                 + incoming.amount - 2 * SumAmounts(trades)
        /\ BagOf(same_before) \sqsubseteq BagOf(same_after)
        /\ Len(same_after) <= Len(same_before) + 1
        /\ Len(same_after) = Len(same_before) + 1 =>
              \E i \in 1..Len(same_after) :
                  /\ same_after[i] = new_order
                  /\ Identity(new_order) = Identity(incoming)
        /\ Dominated(other_after, other_before)

QuantityConservationWitness ==
    /\ pc = "done"
    /\ Len(trades) = 1
    /\ same_before # <<>>
    /\ other_after # <<>>
    /\ peek(other_after).amount < peek(other_before).amount
====
